---- MODULE Spec2Model ----
(***************************************************************************)
(* Model of the media_interface device handlers (GoPro-Hero-Generic-1).    *)
(*                                                                         *)
(* A path in the card directory is a record [prefix, part, id, ext]: the   *)
(* GoPro file name {prefix}{part:02}{media_id}.{ext} split at the byte     *)
(* offsets the code uses (0..2, 2..4, 4..).  The directory is the set fs   *)
(* of paths that exist on disk; known_missing_files is the caller's list.  *)
(* Option<T> is a sequence: <<>> is None and <<v>> is Some(v).             *)
(***************************************************************************)
EXTENDS Integers, Sequences, FiniteSets, TLC

VARIABLES fs, known_missing_files, pc, op, input, ret, listed, parts, classified, visited

vars == <<fs, known_missing_files, pc, op, input, ret, listed, parts, classified, visited>>

\* ---------------------------------------------------------------- bounds
\* Highest part number a file of the modelled directory can carry.
MaxPart == 2
\* Most files on disk, and most paths in the known-missing list.
MaxFiles == 3
MaxMissing == 1
\* Further known-missing paths of the wide specification.
WideMissing == 2

\* ---------------------------------------------------- program constants
\* for part in 1..=99
LAST_PART == 99
\* u8
U8_MODULUS == 256

MediaIds == {"A"}

None == <<>>

Some(v) == <<v>>

Path(prefix, part, id, ext) == [prefix |-> prefix, part |-> part, id |-> id, ext |-> ext]

\* The six file names the camera writes for one part of one video.
VideoNames == {<<"GH", "MP4">>, <<"GX", "MP4">>, <<"GL", "LRV">>, <<"GH", "THM">>, <<"GX", "THM">>, <<"GX", "WAV">>}

Universe == {Path(n[1], p, i, n[2]) : n \in VideoNames, p \in 1..MaxPart, i \in MediaIds}

RECURSIVE SubsetsUpTo(_, _)
SubsetsUpTo(S, k) == IF k = 0 \/ S = {} THEN {{}} ELSE LET x == CHOOSE y \in S : TRUE IN SubsetsUpTo(S \ {x}, k) \cup {T \cup {x} : T \in SubsetsUpTo(S \ {x}, k - 1)}

\* Path::exists, against the directory content disk
exists(disk, file) == file \in disk

\* ------------------------------------------------------------ helpers.rs
get_extension_str(file) == file.ext

create_simple_file_unchecked(file_path, json_file_info) == [file_path |-> file_path, file_type |-> json_file_info.file_type, item_type |-> json_file_info.item_type, part_count |-> None, part_num |-> None, metadata_file |-> None]

\* Result<FileItem>: the error is the record with ok = FALSE.
Err == [ok |-> FALSE]

Ok(v) == [ok |-> TRUE, val |-> v]

\* create_simple_file without the test of the item type.
create_simple_file_any_item(file_path, json_file_info, metadata_file) == Ok([create_simple_file_unchecked(file_path, json_file_info) EXCEPT !.metadata_file = metadata_file])

create_simple_file(file_path, json_file_info, metadata_file) == IF json_file_info.item_type = "video" THEN Err ELSE Ok([create_simple_file_unchecked(file_path, json_file_info) EXCEPT !.metadata_file = metadata_file])

create_part_file(file_path, json_file_info, part_count, part_num, metadata_file) == [create_simple_file_unchecked(file_path, json_file_info) EXCEPT !.part_count = Some(part_count), !.part_num = Some(part_num), !.metadata_file = metadata_file]

create_part_file_if_exists(disk, file_path, json_file_info, part_count, part_num, metadata_file) == IF exists(disk, file_path) THEN Some(create_part_file(file_path, json_file_info, part_count, part_num, metadata_file)) ELSE None

create_simple_file_if_exists(disk, file_path, json_file_info, metadata_file) == IF exists(disk, file_path) THEN (LET r == create_simple_file(file_path, json_file_info, metadata_file) IN IF r.ok THEN Ok(Some(r.val)) ELSE Err) ELSE Ok(None)

\* -------------------------------------------------- gopro_hero_generic_1.rs
\* filename.get(2..4).parse::<u8>(): the two digits of the name, or an error
\* when they are no number (part < 0 stands for unparsable text).
get_gopro_video_part_id(filename) == IF filename.part >= 0 /\ filename.part < U8_MODULUS THEN Ok(filename.part) ELSE Err

GoProVideoFileType == {"LowBitrateVideo", "HighBitrateH265Video", "HighBitrateH264Video", "WavAudio", "ThumbnailPhoto_of_H264Video", "ThumbnailPhoto_of_H265Video"}

new_prefix(file_type) ==
    CASE file_type = "LowBitrateVideo" -> "GL"
      [] file_type = "HighBitrateH264Video" -> "GH"
      [] file_type = "HighBitrateH265Video" -> "GX"
      [] file_type = "WavAudio" -> "GX"
      [] file_type = "ThumbnailPhoto_of_H264Video" -> "GH"
      [] file_type = "ThumbnailPhoto_of_H265Video" -> "GX"

new_extension(file_type) ==
    CASE file_type = "LowBitrateVideo" -> "LRV"
      [] file_type = "HighBitrateH264Video" -> "MP4"
      [] file_type = "HighBitrateH265Video" -> "MP4"
      [] file_type = "WavAudio" -> "WAV"
      [] file_type = "ThumbnailPhoto_of_H264Video" -> "THM"
      [] file_type = "ThumbnailPhoto_of_H265Video" -> "THM"

\* create_gopro_video_file that keeps the prefix of the input name for the
\* H.264 video.
create_gopro_video_file_input_prefix(input_file, part, file_type) == Path(IF file_type = "HighBitrateH264Video" THEN input_file.prefix ELSE new_prefix(file_type), part, input_file.id, new_extension(file_type))

\* {new_prefix}{part:02}{media_id}.{new_extension} in the directory of input_file;
\* media_id is name[4..] of the input.
create_gopro_video_file(input_file, part, file_type) == Path(new_prefix(file_type), part, input_file.id, new_extension(file_type))

\* create_gopro_photo_file that keeps the extension of the input.
create_gopro_photo_file_same_extension(input_file, file_type) == input_file

\* input stem with the extension JPG or GPR
create_gopro_photo_file(input_file, file_type) == [input_file EXCEPT !.ext = IF file_type = "JpegPhoto" THEN "JPG" ELSE "GPR"]

\* PartCount with the two counters exchanged.
PartCount_exchanged(existing, all) == [existing_parts_count |-> all, all_parts_count |-> existing]

PartCount(existing, all) == [existing_parts_count |-> existing, all_parts_count |-> all]

\* count_part with the known-missing test on the H.264 name alone.
count_part_h264_only(disk, km, base_file, part) ==
    LET file_h265 == create_gopro_video_file(base_file, part, "HighBitrateH265Video")
        file_h264 == create_gopro_video_file(base_file, part, "HighBitrateH264Video")
    IN  IF exists(disk, file_h264) \/ exists(disk, file_h265) THEN "existing"
        ELSE IF file_h264 \in km THEN "missing"
        ELSE IF part = 0 THEN "error"
        ELSE "break"

\* One iteration of the loop of count_gopro_parts: what the part counts as.
count_part(disk, km, base_file, part) ==
    LET file_h265 == create_gopro_video_file(base_file, part, "HighBitrateH265Video")
        file_h264 == create_gopro_video_file(base_file, part, "HighBitrateH264Video")
    IN  IF exists(disk, file_h264) \/ exists(disk, file_h265) THEN "existing"
        ELSE IF file_h264 \in km \/ file_h265 \in km THEN "missing"
        ELSE IF part = 0 THEN "error"
        ELSE "break"

RECURSIVE count_loop(_, _, _, _, _)
count_loop(disk, km, base_file, part, acc) ==
    IF part > LAST_PART THEN Ok(acc)
    ELSE LET c == count_part(disk, km, base_file, part)
         IN  CASE c = "existing" -> count_loop(disk, km, base_file, part + 1, PartCount((acc.existing_parts_count + 1) % U8_MODULUS, (acc.all_parts_count + 1) % U8_MODULUS))
               [] c = "missing" -> count_loop(disk, km, base_file, part + 1, PartCount(acc.existing_parts_count, (acc.all_parts_count + 1) % U8_MODULUS))
               [] c = "error" -> Err
               [] c = "break" -> Ok(acc)

count_gopro_parts(disk, km, base_file) == count_loop(disk, km, base_file, 1, PartCount(0, 0))

JsonFileInfoTypes(file_type, item_type) == [file_type |-> file_type, item_type |-> item_type]

\* filetype with LRV typed as the video itself.
filetype_lrv_as_video(ext) ==
    CASE ext = "THM" -> Ok(JsonFileInfoTypes("image-preview", "video"))
      [] ext = "MP4" -> Ok(JsonFileInfoTypes("video", "video"))
      [] ext = "LRV" -> Ok(JsonFileInfoTypes("video", "video"))
      [] ext = "WAV" -> Ok(JsonFileInfoTypes("audio", "video"))
      [] ext = "JPG" -> Ok(JsonFileInfoTypes("image", "image"))
      [] ext = "GPR" -> Ok(JsonFileInfoTypes("image-raw", "image"))
      [] OTHER -> Err

filetype(ext) ==
    CASE ext = "THM" -> Ok(JsonFileInfoTypes("image-preview", "video"))
      [] ext = "MP4" -> Ok(JsonFileInfoTypes("video", "video"))
      [] ext = "LRV" -> Ok(JsonFileInfoTypes("video-preview", "video"))
      [] ext = "WAV" -> Ok(JsonFileInfoTypes("audio", "video"))
      [] ext = "JPG" -> Ok(JsonFileInfoTypes("image", "image"))
      [] ext = "GPR" -> Ok(JsonFileInfoTypes("image-raw", "image"))
      [] OTHER -> Err

\* The order in which get_related derives the siblings of one part.
file_types == <<"HighBitrateH264Video", "HighBitrateH265Video", "LowBitrateVideo", "ThumbnailPhoto_of_H265Video", "ThumbnailPhoto_of_H264Video", "WavAudio">>

\* The inner loop of get_related over file_types, from index i on: acc holds
\* the items pushed so far and the found_types flags of this part.
RECURSIVE scan_types(_, _, _, _, _, _, _, _)
scan_types(disk, km, source_media_file, part, part_count, part_num, i, acc) ==
    IF i > Len(file_types) THEN acc
    ELSE LET file_type_enum == file_types[i]
             file == create_gopro_video_file(source_media_file, part, file_type_enum)
             extension == get_extension_str(file)
             item == create_part_file_if_exists(disk, file, filetype(extension).val, part_count, part_num, None)
         IN  IF item # None
             THEN scan_types(disk, km, source_media_file, part, part_count, part_num, i + 1, [items |-> Append(acc.items, item[1]), found_types |-> acc.found_types \cup {file_type_enum}])
             ELSE IF file \in km
             THEN scan_types(disk, km, source_media_file, part, part_count, part_num, i + 1, [acc EXCEPT !.found_types = @ \cup {file_type_enum}])
             ELSE scan_types(disk, km, source_media_file, part, part_count, part_num, i + 1, acc)

\* a ^ b on bool
Xor(a, b) == (a /\ ~b) \/ (~a /\ b)

\* check_found_types with || where the code has ^ on the two video flags.
check_found_types_video_or(found_types) ==
    IF ~("HighBitrateH264Video" \in found_types \/ "HighBitrateH265Video" \in found_types) THEN "video"
    ELSE IF ~Xor("ThumbnailPhoto_of_H264Video" \in found_types, "ThumbnailPhoto_of_H265Video" \in found_types) THEN "thumbnail"
    ELSE IF ~("LowBitrateVideo" \in found_types) THEN "lrv"
    ELSE "ok"

\* check_found_types without the test of the low bitrate video.
check_found_types_no_lrv(found_types) ==
    IF ~Xor("HighBitrateH264Video" \in found_types, "HighBitrateH265Video" \in found_types) THEN "video"
    ELSE IF ~Xor("ThumbnailPhoto_of_H264Video" \in found_types, "ThumbnailPhoto_of_H265Video" \in found_types) THEN "thumbnail"
    ELSE "ok"

\* The three per-part checks of get_related: "ok" or the check that fails.
check_found_types(found_types) ==
    IF ~Xor("HighBitrateH264Video" \in found_types, "HighBitrateH265Video" \in found_types) THEN "video"
    ELSE IF ~Xor("ThumbnailPhoto_of_H264Video" \in found_types, "ThumbnailPhoto_of_H265Video" \in found_types) THEN "thumbnail"
    ELSE IF ~("LowBitrateVideo" \in found_types) THEN "lrv"
    ELSE "ok"

\* existing_part_number after a part with the flags found_types
next_part_number(found_types, existing_part_number) == IF found_types # {} THEN (existing_part_number + 1) % U8_MODULUS ELSE existing_part_number

\* part_count argument handed to create_part_file_if_exists by get_related
related_part_count(part_count) == part_count.existing_parts_count

\* The loop of get_related over the parts part..=all_parts_count.
RECURSIVE related_parts(_, _, _, _, _, _, _)
related_parts(disk, km, source_media_file, part_count, part, existing_part_number, items) ==
    IF part > part_count.all_parts_count THEN [ok |-> TRUE, items |-> items]
    ELSE LET sc == scan_types(disk, km, source_media_file, part, related_part_count(part_count), existing_part_number, 1, [items |-> items, found_types |-> {}])
         IN  IF check_found_types(sc.found_types) # "ok" THEN [ok |-> FALSE, items |-> <<>>]
             ELSE related_parts(disk, km, source_media_file, part_count, part + 1, next_part_number(sc.found_types, existing_part_number), sc.items)

\* The JPG | GPR arm of get_related.
related_photos(disk, source_media_file) ==
    LET jpg == create_gopro_photo_file(source_media_file, "JpegPhoto")
        gpr == create_gopro_photo_file(source_media_file, "RawPhoto")
        a == create_simple_file_if_exists(disk, jpg, filetype(get_extension_str(jpg)).val, None)
        b == create_simple_file_if_exists(disk, gpr, filetype(get_extension_str(gpr)).val, None)
    IN  IF ~a.ok \/ ~b.ok THEN [ok |-> FALSE, items |-> <<>>] ELSE [ok |-> TRUE, items |-> a.val \o b.val]

get_related(disk, km, source_media_file) ==
    LET ext == get_extension_str(source_media_file)
    IN  IF ext \in {"THM", "MP4", "WAV", "LRV"}
        THEN LET part_count == count_gopro_parts(disk, km, source_media_file)
             IN  IF ~part_count.ok THEN [ok |-> FALSE, items |-> <<>>]
                 ELSE related_parts(disk, km, source_media_file, part_count.val, 1, 1, <<>>)
        ELSE IF ext \in {"JPG", "GPR"} THEN related_photos(disk, source_media_file)
        ELSE [ok |-> FALSE, items |-> <<>>]

\* list_thumbnail, THM arm: some earlier part's LRV is not known-missing
thm_not_first(km, path, part_id) == part_id # 1 /\ \E n \in 1..(part_id - 1) : create_gopro_video_file(path, n, "LowBitrateVideo") \notin km

\* The closure list_thumbnail hands to filter_dir, on one directory entry.
list_thumbnail_visit(disk, km, path) ==
    LET ext == path.ext
    IN  CASE ext = "THM" ->
               LET part_id == get_gopro_video_part_id(path)
               IN  IF ~part_id.ok THEN Err
                   ELSE IF thm_not_first(km, path, part_id.val) THEN Ok(None)
                   ELSE LET r == create_simple_file(path, filetype(ext).val, Some([path EXCEPT !.ext = "MP4"]))
                        IN  IF r.ok THEN Ok(Some(r.val)) ELSE Err
          [] ext = "JPG" ->
               LET r == create_simple_file(path, filetype(ext).val, None)
               IN  IF r.ok THEN Ok(Some(r.val)) ELSE Err
          [] ext \in {"MP4", "GPR", "LRV", "WAV"} -> Ok(None)
          [] OTHER -> Err

\* list_high_quality, MP4 arm: the test that skips an MP4 of a later part
mp4_not_first(km, path, part_id) ==
    part_id # 1 /\ \E n \in 1..(part_id - 1) :
        LET h264_file == create_gopro_video_file(path, n, "HighBitrateH264Video")
            h265_file == create_gopro_video_file(path, n, "HighBitrateH264Video")
        IN  h265_file \notin km \/ h264_file \notin km

\* high_quality_part_count with the other counter of PartCount.
high_quality_part_count_all(part_count) == part_count.all_parts_count

\* part_count argument handed to create_part_file by list_high_quality
high_quality_part_count(part_count) == part_count.existing_parts_count

\* The closure list_high_quality hands to filter_dir, on one directory entry.
list_high_quality_visit(disk, km, path) ==
    LET ext == path.ext
    IN  CASE ext = "MP4" ->
               LET part_id == get_gopro_video_part_id(path)
               IN  IF ~part_id.ok THEN Err
                   ELSE IF mp4_not_first(km, path, part_id.val) THEN Ok(None)
                   ELSE LET part_count == count_gopro_parts(disk, km, path)
                        IN  IF ~part_count.ok THEN Err
                            ELSE Ok(Some(create_part_file(path, filetype(ext).val, high_quality_part_count(part_count.val), 1, Some(path))))
          [] ext \in {"GPR", "JPG"} ->
               IF ext = "GPR" \/ ~exists(disk, create_gopro_photo_file(path, "RawPhoto"))
               THEN LET r == create_simple_file(path, filetype(ext).val, None)
                    IN  IF r.ok THEN Ok(Some(r.val)) ELSE Err
               ELSE Ok(None)
          [] ext \in {"THM", "LRV", "WAV"} -> Ok(None)
          [] OTHER -> Err

\* filter_dir over the outcomes visits of the visitor on every directory entry:
\* an error on any entry aborts the scan and is the result, otherwise every
\* emitted item is pushed.  read_dir yields the entries in an order of the file
\* system's choosing, so the Vec is kept as the set of its items.
filter_dir(visits) ==
    IF \E v \in visits : ~v.ok THEN [ok |-> FALSE, items |-> {}]
    ELSE [ok |-> TRUE, items |-> {v.val[1] : v \in {w \in visits : w.val # None}}]

list_thumbnail(disk, km) == filter_dir({list_thumbnail_visit(disk, km, path) : path \in disk})

list_high_quality(disk, km) == filter_dir({list_high_quality_visit(disk, km, path) : path \in disk})

\* ------------------------------------------------------------ the machine
NoParts == [ok |-> TRUE, existing_parts_count |-> 0, all_parts_count |-> 0]

NoRet == [ok |-> TRUE, items |-> <<>>]

NoList == [ok |-> TRUE, items |-> {}]

NoTypes == [ok |-> FALSE]

\* The two MP4 names of the parts 1..MaxPart+1: all count_gopro_parts reads.
CountUniverse == {Path(x, p, i, "MP4") : x \in {"GH", "GX"}, p \in 1..(MaxPart + 1), i \in MediaIds}

Start ==
    /\ pc = "idle"
    /\ op = "none"
    /\ input = None
    /\ ret = NoRet
    /\ listed = NoList
    /\ parts = NoParts
    /\ classified = NoTypes
    /\ visited = 0

\* A card directory of at most MaxFiles files and a known-missing list of at
\* most MaxMissing paths, none of which is on disk.
Init ==
    /\ fs \in SubsetsUpTo(Universe, MaxFiles)
    /\ known_missing_files \in SubsetsUpTo(Universe \ fs, MaxMissing)
    /\ Start

\* The same with a known-missing list long enough to declare whole parts.
InitWide ==
    /\ fs \in SubsetsUpTo(Universe, MaxFiles)
    /\ known_missing_files \in SubsetsUpTo(Universe \ fs, MaxMissing + WideMissing)
    /\ Start

\* Every directory and known-missing list over the MP4 names.
InitCount ==
    /\ fs \in SUBSET CountUniverse
    /\ known_missing_files \in SUBSET (CountUniverse \ fs)
    /\ Start

\* count_gopro_parts(base_file, known_missing_files)
CountGoproParts(base_file) ==
    /\ pc = "idle"
    /\ LET r == count_gopro_parts(fs, known_missing_files, base_file)
       IN  parts' = IF r.ok THEN [ok |-> TRUE, existing_parts_count |-> r.val.existing_parts_count, all_parts_count |-> r.val.all_parts_count]
                    ELSE [ok |-> FALSE, existing_parts_count |-> 0, all_parts_count |-> 0]
    /\ pc' = "done"
    /\ op' = "count_gopro_parts"
    /\ input' = Some(base_file)
    /\ UNCHANGED <<fs, known_missing_files, classified, visited, ret, listed>>

\* GoProInterface::get_related(_, source_media_file, known_missing_files)
GetRelated(source_media_file) ==
    /\ pc = "idle"
    /\ ret' = get_related(fs, known_missing_files, source_media_file)
    /\ pc' = "done"
    /\ op' = "get_related"
    /\ input' = Some(source_media_file)
    /\ UNCHANGED <<fs, known_missing_files, classified, visited, parts, listed>>

\* GoProInterface::list_thumbnail(_, source_media_card, known_missing_files)
ListThumbnail ==
    /\ pc = "idle"
    /\ listed' = list_thumbnail(fs, known_missing_files)
    /\ pc' = "done"
    /\ op' = "list_thumbnail"
    /\ UNCHANGED <<fs, known_missing_files, classified, visited, input, ret, parts>>

\* GoProInterface::list_high_quality(_, source_media_card, known_missing_files)
ListHighQuality ==
    /\ pc = "idle"
    /\ listed' = list_high_quality(fs, known_missing_files)
    /\ pc' = "done"
    /\ op' = "list_high_quality"
    /\ UNCHANGED <<fs, known_missing_files, classified, visited, input, ret, parts>>

\* The name a caller hands to count_gopro_parts: it carries the media id.
BaseFiles == {Path("GH", 1, i, "MP4") : i \in MediaIds}

NextCount == \E base_file \in BaseFiles : CountGoproParts(base_file)

Next ==
    \/ \E base_file \in BaseFiles : CountGoproParts(base_file)
    \/ \E source_media_file \in fs : GetRelated(source_media_file)
    \/ ListThumbnail
    \/ ListHighQuality

Spec == Init /\ [][Next]_vars

SpecWide == InitWide /\ [][Next]_vars

SpecCount == InitCount /\ [][NextCount]_vars

\* ------------------------------------------------------------ properties
Done(o) == pc = "done" /\ op = o

H264(p, i) == Path("GH", p, i, "MP4")

H265(p, i) == Path("GX", p, i, "MP4")

LRV(p, i) == Path("GL", p, i, "LRV")

THM264(p, i) == Path("GH", p, i, "THM")

THM265(p, i) == Path("GX", p, i, "THM")

WAV(p, i) == Path("GX", p, i, "WAV")

\* A path is accounted for when it is on disk or declared known-missing.
AccountedFor(f) == f \in fs \/ f \in known_missing_files

PartAccounted(p, i) == AccountedFor(H264(p, i)) \/ AccountedFor(H265(p, i))

PartOnDisk(p, i) == H264(p, i) \in fs \/ H265(p, i) \in fs

\* The length of the longest prefix 1..n of accounted parts.
LongestPrefix(i) == CHOOSE n \in 0..LAST_PART : (\A p \in 1..n : PartAccounted(p, i)) /\ (n = LAST_PART \/ ~PartAccounted(n + 1, i))

\* The same length, found by walking the parts from p on.
RECURSIVE PrefixFrom(_, _)
PrefixFrom(p, i) == IF p > LAST_PART \/ ~PartAccounted(p, i) THEN p - 1 ELSE PrefixFrom(p + 1, i)

SequenceLength(i) == PrefixFrom(1, i)

ExistingParts(i) == Cardinality({p \in 1..SequenceLength(i) : PartOnDisk(p, i)})

InputId == input[1].id

\* C1: count_gopro_parts fails whenever part 1 has neither MP4 on disk nor in
\* the known-missing list.
C1_FailsWithoutFirstPart == (Done("count_gopro_parts") /\ ~PartAccounted(1, InputId)) => ~parts.ok

Qualifies(f) == f.ext = "THM" /\ \A n \in 1..(f.part - 1) : LRV(n, f.id) \in known_missing_files

\* C3: list_thumbnail succeeds on a directory with a qualifying THM and emits
\* for it one simple FileItem whose metadata_file is the MP4 of the same name.
C3_ThumbnailEmitted ==
    (Done("list_thumbnail") /\ \E f \in fs : Qualifies(f)) =>
        /\ listed.ok
        /\ \A f \in fs : Qualifies(f) =>
               Cardinality({it \in listed.items : it.file_path = f /\ it.part_count = None /\ it.part_num = None /\ it.metadata_file = Some([f EXCEPT !.ext = "MP4"])}) = 1

\* The part numbers carried by the items of a get_related answer.
PartNums == {ret.items[k].part_num[1] : k \in 1..Len(ret.items)}

VideoInput == input # None /\ input[1].ext \in {"THM", "MP4", "WAV", "LRV"}

\* C4: the part numbers of a successful get_related answer are 1..k without a
\* gap, whatever parts are known-missing.
C4_PartNumbersContiguous == (Done("get_related") /\ VideoInput /\ ret.ok) => PartNums = 1..Cardinality(PartNums)

\* C5 as stated: every part_count equals the total number of segments, on disk
\* or known-missing.
C5_PartCountIsAllParts ==
    /\ (Done("get_related") /\ VideoInput /\ ret.ok) => \A k \in 1..Len(ret.items) : ret.items[k].part_count = Some(SequenceLength(InputId))
    /\ (Done("list_high_quality") /\ listed.ok) => \A it \in listed.items : it.file_path.ext = "MP4" => it.part_count = Some(SequenceLength(it.file_path.id))

\* C5 amended: every part_count equals existing_parts_count, the number of
\* segments of the sequence that have an MP4 on disk.
C5_PartCountIsExistingParts ==
    /\ (Done("get_related") /\ VideoInput /\ ret.ok) => \A k \in 1..Len(ret.items) : ret.items[k].part_count = Some(ExistingParts(InputId))
    /\ (Done("list_high_quality") /\ listed.ok) => \A it \in listed.items : it.file_path.ext = "MP4" => it.part_count = Some(ExistingParts(it.file_path.id))

\* An MP4 is listed with a part_count below the length of its sequence.
C5_Witness ==
    /\ Done("list_high_quality")
    /\ \E it \in listed.items : it.file_path.ext = "MP4" /\ it.part_count = Some(ExistingParts(it.file_path.id)) /\ ExistingParts(it.file_path.id) < SequenceLength(it.file_path.id)

\* C6: get_related succeeds only when every part of the sequence has exactly
\* one of its H.264 and H.265 MP4 accounted for; with both, or neither, in
\* some part it fails.
C6_VideoExclusive ==
    (Done("get_related") /\ VideoInput) =>
        /\ ret.ok => \A p \in 1..SequenceLength(InputId) : Xor(AccountedFor(H264(p, InputId)), AccountedFor(H265(p, InputId)))
        /\ (\E p \in 1..SequenceLength(InputId) : AccountedFor(H264(p, InputId)) = AccountedFor(H265(p, InputId))) => ~ret.ok

\* Part 1 has both MP4 variants accounted for, an LRV and a THM: it fails.
C6_Witness ==
    /\ Done("get_related") /\ VideoInput
    /\ AccountedFor(H264(1, InputId)) /\ AccountedFor(H265(1, InputId))
    /\ LRV(1, InputId) \in fs /\ THM264(1, InputId) \in fs
    /\ ~ret.ok

WavFiles == {f \in Universe : f.ext = "WAV"}

\* C7: get_related succeeds only when every part has its LRV accounted for and
\* exactly one of its two THM accounted for; the WAV files change nothing.
C7_PreviewAndThumbnail ==
    (Done("get_related") /\ VideoInput) =>
        /\ ret.ok => \A p \in 1..SequenceLength(InputId) :
               /\ AccountedFor(LRV(p, InputId))
               /\ Xor(AccountedFor(THM264(p, InputId)), AccountedFor(THM265(p, InputId)))
        /\ ret.ok = get_related(fs \ WavFiles, known_missing_files \ WavFiles, input[1]).ok

\* A part with its video and LRV but no THM accounted for fails, and an answer
\* is given with a WAV on disk.
C7_Witness ==
    /\ Done("get_related") /\ VideoInput
    /\ \/ /\ ret.ok /\ WAV(1, InputId) \in fs
       \/ /\ ~ret.ok /\ H264(1, InputId) \in fs /\ LRV(1, InputId) \in fs /\ ~AccountedFor(THM264(1, InputId)) /\ ~AccountedFor(THM265(1, InputId))

FileTypes == {ret.items[k].file_type : k \in 1..Len(ret.items)}

OnePartItem == {H264(1, "A"), LRV(1, "A"), THM264(1, "A")}

\* C8: on the directory GH01A.MP4, GL01A.LRV, GH01A.THM with nothing known-
\* missing, get_related on the MP4 returns exactly three FileItems (video,
\* video-preview, image-preview), each with part_count 1 and part_num 1.
C8_OnePartItem ==
    (Done("get_related") /\ fs = OnePartItem /\ known_missing_files = {} /\ input = Some(H264(1, "A"))) =>
        /\ ret.ok
        /\ Len(ret.items) = 3
        /\ FileTypes = {"video", "video-preview", "image-preview"}
        /\ {ret.items[k].file_path : k \in 1..3} = OnePartItem
        /\ \A k \in 1..3 : ret.items[k].part_count = Some(1) /\ ret.items[k].part_num = Some(1)

C8_Witness == Done("get_related") /\ fs = OnePartItem /\ known_missing_files = {} /\ input = Some(H264(1, "A")) /\ Len(ret.items) = 3

\* C9: a successful get_related answer is not empty when a file of the
\* input's item is on disk.
C9_NeverEmptyWithFileOnDisk == (Done("get_related") /\ VideoInput /\ ret.ok /\ \E f \in fs : f.id = InputId) => ret.items # <<>>

\* An MP4 is the representative when it is part 1 or every earlier part has
\* its H.264 or its H.265 MP4 known-missing.
QualifiesVideo(f) == f.ext = "MP4" /\ \A n \in 1..(f.part - 1) : H264(n, f.id) \in known_missing_files \/ H265(n, f.id) \in known_missing_files

Emitted(i, ext) == {it \in listed.items : it.file_path.id = i /\ it.file_path.ext = ext}

\* C10: a list call emits at most one THM (list_thumbnail) or MP4
\* (list_high_quality) per media id, and exactly one when a representative of
\* the item is on disk.
C10_OnePerItem ==
    /\ Done("list_thumbnail") => \A i \in MediaIds :
           /\ Cardinality(Emitted(i, "THM")) <= 1
           /\ (\E f \in fs : f.id = i /\ Qualifies(f)) => Cardinality(Emitted(i, "THM")) = 1
    /\ Done("list_high_quality") => \A i \in MediaIds :
           /\ Cardinality(Emitted(i, "MP4")) <= 1
           /\ (\E f \in fs : f.id = i /\ QualifiesVideo(f)) => Cardinality(Emitted(i, "MP4")) = 1

ListedPaths == {it.file_path : it \in listed.items}

\* C11: list_high_quality emits an MP4 of a part k > 1 exactly when every
\* earlier part has its H.264 or its H.265 MP4 known-missing, and skips it
\* without an error otherwise.
C11_LaterVideoRepresentative ==
    Done("list_high_quality") =>
        /\ listed.ok
        /\ \A f \in fs : (f.ext = "MP4" /\ f.part > 1) => (f \in ListedPaths <=> QualifiesVideo(f))

\* C12: list_thumbnail yields a THM of a part k > 1 as the representative
\* exactly when the LRV of every earlier part is known-missing, and skips it
\* with no item and no error otherwise.
C12_LaterThumbnailRepresentative ==
    Done("list_thumbnail") =>
        \A f \in fs : (f.ext = "THM" /\ f.part > 1) =>
            /\ Qualifies(f) => (listed.ok /\ f \in ListedPaths)
            /\ ~Qualifies(f) => (f \notin ListedPaths /\ list_thumbnail_visit(fs, known_missing_files, f) = Ok(None))

\* C13: when get_related succeeds on an existing file f, get_related on every
\* file of its answer succeeds with an answer that contains f.
C13_RoundTrip ==
    (Done("get_related") /\ ret.ok /\ input[1] \in fs) =>
        \A k \in 1..Len(ret.items) :
            LET again == get_related(fs, known_missing_files, ret.items[k].file_path)
            IN  again.ok /\ \E j \in 1..Len(again.items) : again.items[j].file_path = input[1]

\* ------------------------------------------- generic_single_file_items.rs
\* A file of a single-file device is a record [stem, ext].
File(stem, ext) == [stem |-> stem, ext |-> ext]

\* str::to_lowercase on the extensions of the modelled directories
to_lowercase(ext) ==
    CASE ext = "JPG" -> "jpg"
      [] ext = "PNG" -> "png"
      [] ext = "MP4" -> "mp4"
      [] ext = "WAV" -> "wav"
      [] ext = "3GPP" -> "3gpp"
      [] ext = "GPX" -> "gpx"
      [] ext = "KML" -> "kml"
      [] ext = "TXT" -> "txt"
      [] OTHER -> ext

generic_filetype(ext) ==
    LET lower == to_lowercase(ext)
    IN  CASE lower = "jpg" -> Ok(JsonFileInfoTypes("image", "image"))
          [] lower = "png" -> Ok(JsonFileInfoTypes("image", "image"))
          [] lower = "mp4" -> Ok(JsonFileInfoTypes("video", "video"))
          [] lower = "wav" -> Ok(JsonFileInfoTypes("audio", "audio"))
          [] lower = "3gpp" -> Ok(JsonFileInfoTypes("audio", "audio"))
          [] OTHER -> Err

\* The closure GenericSingleFileItem::list_thumbnail hands to filter_dir.
generic_list_thumbnail_visit(path) ==
    LET types == generic_filetype(get_extension_str(path))
    IN  IF ~types.ok THEN Err
        ELSE CASE types.val.file_type \in {"video", "audio"} -> Ok(Some(create_part_file(path, types.val, 1, 1, None)))
               [] types.val.file_type = "image" ->
                    LET r == create_simple_file(path, types.val, None)
                    IN  IF r.ok THEN Ok(Some(r.val)) ELSE Err
               [] OTHER -> Err

generic_list_thumbnail(disk) == filter_dir({generic_list_thumbnail_visit(path) : path \in disk})

generic_list_high_quality(disk) == generic_list_thumbnail(disk)

generic_get_related(source_media_file) ==
    LET types == generic_filetype(get_extension_str(source_media_file))
    IN  IF ~types.ok THEN [ok |-> FALSE, items |-> <<>>]
        ELSE CASE types.val.file_type = "video" -> [ok |-> TRUE, items |-> <<create_part_file(source_media_file, types.val, 1, 1, None)>>]
               [] types.val.file_type = "image" ->
                    LET r == create_simple_file(source_media_file, types.val, None)
                    IN  IF r.ok THEN [ok |-> TRUE, items |-> <<r.val>>] ELSE [ok |-> FALSE, items |-> <<>>]
               [] OTHER -> [ok |-> FALSE, items |-> <<>>]

\* The directories of the single-file device: two stems under the extensions
\* the handler knows, in both cases, and one it does not know.
GenericStems == {"a", "b"}

GenericExts == {"jpg", "JPG", "png", "mp4", "wav", "3gpp", "txt"}

GenericUniverse == {File(s, e) : s \in GenericStems, e \in GenericExts}

InitGeneric ==
    /\ fs \in SubsetsUpTo(GenericUniverse, MaxFiles)
    /\ known_missing_files \in SubsetsUpTo(GenericUniverse \ fs, MaxMissing)
    /\ Start

\* GenericSingleFileItem::list_thumbnail(_, source_media_card, _)
GenericListThumbnail ==
    /\ pc = "idle"
    /\ listed' = generic_list_thumbnail(fs)
    /\ pc' = "done"
    /\ op' = "Generic.list_thumbnail"
    /\ UNCHANGED <<fs, known_missing_files, classified, visited, input, ret, parts>>

\* GenericSingleFileItem::list_high_quality(_, source_media_card, _)
GenericListHighQuality ==
    /\ pc = "idle"
    /\ listed' = generic_list_high_quality(fs)
    /\ pc' = "done"
    /\ op' = "Generic.list_high_quality"
    /\ UNCHANGED <<fs, known_missing_files, classified, visited, input, ret, parts>>

\* GenericSingleFileItem::get_related(_, source_media_file, _)
GenericGetRelated(source_media_file) ==
    /\ pc = "idle"
    /\ ret' = generic_get_related(source_media_file)
    /\ pc' = "done"
    /\ op' = "Generic.get_related"
    /\ input' = Some(source_media_file)
    /\ UNCHANGED <<fs, known_missing_files, classified, visited, listed, parts>>

NextGeneric ==
    \/ GenericListThumbnail
    \/ GenericListHighQuality
    \/ \E source_media_file \in fs : GenericGetRelated(source_media_file)

SpecGeneric == InitGeneric /\ [][NextGeneric]_vars

\* The extensions the list operations of the generic handler accept.
GenericAccepted == {"jpg", "png", "mp4", "wav", "3gpp"}

\* C14: generic get_related on a file whose extension the list operations
\* accept succeeds with exactly one FileItem, the one the list operations emit
\* for that file (same path, file_type, item_type, part_count and part_num).
C14_GenericRelatedMatchesList ==
    (Done("Generic.get_related") /\ to_lowercase(input[1].ext) \in GenericAccepted) =>
        /\ ret.ok
        /\ Len(ret.items) = 1
        /\ generic_list_thumbnail_visit(input[1]) = Ok(Some(ret.items[1]))

\* ------------------------------------------------------- sony_ilcem4_1.rs
\* A path of the Sony card is a record [dir, stem, ext]: dir is the sequence
\* of directory names from the root, and stem is the file name without its
\* extension split at the byte offsets the code uses (0, 1..=4, 5..).  The
\* entry with the empty stem stands for the directory dir itself.
SonyPath(dir, stem, ext) == [dir |-> dir, stem |-> stem, ext |-> ext]

SonyDir(dir) == SonyPath(dir, <<>>, "")

\* Path::parent of a directory: None at the root
parent(dir) == IF dir = <<>> THEN None ELSE Some(SubSeq(dir, 1, Len(dir) - 1))

\* Path::file_name of a directory: None at the root
file_name(dir) == IF dir = <<>> THEN None ELSE Some(dir[Len(dir)])

\* Path::join
join(dir, name) == Append(dir, name)

\* Path::with_extension
with_extension(path, ext) == [path EXCEPT !.ext = ext]

\* str::ends_with("MSDCF") on the album names of the modelled cards
ends_with_MSDCF(name) == name \in {"100MSDCF", "101MSDCF"}

starts_with(dir, prefix) == Len(prefix) <= Len(dir) /\ SubSeq(dir, 1, Len(prefix)) = prefix

\* Path::exists of a directory: the directory is on disk, or something in it is
dir_exists(disk, dir) == \E e \in disk : starts_with(e.dir, dir)

\* fs::read_dir(dir), the files among the entries
read_dir_files(disk, dir) == {e \in disk : e.dir = dir /\ e.stem # <<>>}

\* fs::read_dir(dir), the directories among the entries
read_dir_dirs(disk, dir) == {SubSeq(e.dir, 1, Len(dir) + 1) : e \in {x \in disk : starts_with(x.dir, dir) /\ Len(x.dir) > Len(dir)}}

\* expected_source_media_location with one parent() call: the card directory.
expected_source_media_location_card(folder) == parent(folder)

\* The two parent() calls that walk from the folder holding DCIM or PRIVATE
\* up to the source media directory.
expected_source_media_location(folder) ==
    LET card == parent(folder)
    IN  IF card = None THEN None ELSE parent(card[1])

sony_filetype_dcim(extension) ==
    CASE extension = "JPG" -> Ok(JsonFileInfoTypes("image", "image"))
      [] extension = "ARW" -> Ok(JsonFileInfoTypes("image-raw", "image"))
      [] OTHER -> Err

sony_filetype_m4root(m4root_subfolder_name, extension) ==
    CASE m4root_subfolder_name = "CLIP" /\ extension = "MP4" -> Ok(JsonFileInfoTypes("video", "video"))
      [] m4root_subfolder_name = "CLIP" /\ extension = "XML" -> Ok(JsonFileInfoTypes("metadata", "video"))
      [] m4root_subfolder_name = "THMBNL" /\ extension = "JPG" -> Ok(JsonFileInfoTypes("image-preview", "video"))
      [] OTHER -> Err

sony_filetype(file, source_media_location) ==
    LET extension == get_extension_str(file)
        parent_folder == file.dir
        grandparent_folder == parent(parent_folder)
    IN  IF grandparent_folder = None \/ file_name(grandparent_folder[1]) = None THEN Err
        ELSE LET grandparent_name == file_name(grandparent_folder[1])[1]
                 parent_folder_name == file_name(parent_folder)[1]
             IN  IF grandparent_name = "DCIM"
                 THEN LET expected == expected_source_media_location(grandparent_folder[1])
                      IN  IF expected = None THEN Err
                          ELSE IF ends_with_MSDCF(parent_folder_name) /\ expected[1] = source_media_location
                          THEN sony_filetype_dcim(extension)
                          ELSE Err
                 ELSE IF grandparent_name = "M4ROOT"
                 THEN LET private_folder == parent(grandparent_folder[1])
                      IN  IF private_folder = None \/ file_name(private_folder[1]) = None THEN Err
                          ELSE LET expected == expected_source_media_location(private_folder[1])
                               IN  IF expected = None THEN Err
                                   ELSE IF file_name(private_folder[1])[1] = "PRIVATE" /\ expected[1] = source_media_location
                                   THEN sony_filetype_m4root(parent_folder_name, extension)
                                   ELSE Err
                 ELSE Err

VideoFiles == {"Thumbnail", "Video", "Metadata"}

\* input_filename[1..=4]
get_video_id(file) == file.stem[2]

create_video_file(input_file, id, file_type) ==
    LET m4root == parent(input_file.dir)[1]
    IN  CASE file_type = "Video" -> SonyPath(join(m4root, "CLIP"), <<"C", id, "">>, "MP4")
          [] file_type = "Metadata" -> SonyPath(join(m4root, "CLIP"), <<"C", id, "M01">>, "XML")
          [] file_type = "Thumbnail" -> SonyPath(join(m4root, "THMBNL"), <<"C", id, "T01">>, "JPG")

\* create_part_file_that_exists that lets every absent file pass.
create_part_file_that_exists_lenient(disk, km, file_path, json_file_info, part_count, part_num, metadata_file) ==
    IF exists(disk, file_path) THEN Ok(Some(create_part_file(file_path, json_file_info, part_count, part_num, metadata_file)))
    ELSE Ok(None)

\* helpers.rs
create_part_file_that_exists(disk, km, file_path, json_file_info, part_count, part_num, metadata_file) ==
    IF exists(disk, file_path) THEN Ok(Some(create_part_file(file_path, json_file_info, part_count, part_num, metadata_file)))
    ELSE IF file_path \in km THEN Ok(None)
    ELSE Err

\* The simple record of a photo, or the error of its classification.
sony_simple_file(path, source_media_location) ==
    LET t == sony_filetype(path, source_media_location)
    IN  IF ~t.ok THEN Err
        ELSE LET r == create_simple_file(path, t.val, None)
             IN  IF r.ok THEN Ok(Some(r.val)) ELSE Err

\* The part record of a video file, or the error of its classification.
sony_part_file(path, source_media_location) ==
    LET t == sony_filetype(path, source_media_location)
    IN  IF ~t.ok THEN Err ELSE Ok(Some(create_part_file(path, t.val, 1, 1, None)))

\* has_sibling that never finds the sibling.
has_sibling_never(disk, path, ext) == FALSE

\* path.with_extension(ext).exists()
has_sibling(disk, path, ext) == exists(disk, with_extension(path, ext))

\* The closure of list_thumbnail on an entry of an album directory.
sony_list_thumbnail_image(disk, source_media_location, path) ==
    CASE path.ext = "ARW" -> IF ~has_sibling(disk, path, "JPG") THEN sony_simple_file(path, source_media_location) ELSE Ok(None)
      [] path.ext = "JPG" -> sony_simple_file(path, source_media_location)
      [] OTHER -> Err

\* The closure of list_thumbnail on an entry of PRIVATE/M4ROOT/THMBNL.
sony_list_thumbnail_video(source_media_location, path) ==
    CASE path.ext = "JPG" -> sony_part_file(path, source_media_location)
      [] OTHER -> Err

\* The closure of list_high_quality on an entry of an album directory.
sony_list_high_quality_image(disk, source_media_location, path) ==
    CASE path.ext = "JPG" -> IF ~has_sibling(disk, path, "ARW") THEN sony_simple_file(path, source_media_location) ELSE Ok(None)
      [] path.ext = "ARW" -> sony_simple_file(path, source_media_location)
      [] OTHER -> Err

\* The closure of list_high_quality on an entry of PRIVATE/M4ROOT/CLIP.
sony_list_high_quality_video(source_media_location, path) ==
    CASE path.ext = "MP4" -> sony_part_file(path, source_media_location)
      [] path.ext = "XML" -> Ok(None)
      [] OTHER -> Err

\* fs::read_dir followed by filter_dir: fails when the directory is not there.
filter_existing_dir(disk, dir, visits) == IF dir_exists(disk, dir) THEN filter_dir(visits) ELSE [ok |-> FALSE, items |-> {}]

\* files.append of every image_set and of videos; the first error is the result.
sony_collect(image_sets, videos) ==
    IF (\E r \in image_sets : ~r.ok) \/ ~videos.ok THEN [ok |-> FALSE, items |-> {}]
    ELSE [ok |-> TRUE, items |-> UNION {r.items : r \in image_sets} \cup videos.items]

sony_list_thumbnail(disk, source_media_location, source_media_card) ==
    LET dcim == join(source_media_card, "DCIM")
        thmbnl == join(join(join(source_media_card, "PRIVATE"), "M4ROOT"), "THMBNL")
        image_sets == IF dir_exists(disk, dcim)
                      THEN {filter_dir({sony_list_thumbnail_image(disk, source_media_location, path) : path \in read_dir_files(disk, imagedir)}) : imagedir \in read_dir_dirs(disk, dcim)}
                      ELSE {}
        videos == filter_existing_dir(disk, thmbnl, {sony_list_thumbnail_video(source_media_location, path) : path \in read_dir_files(disk, thmbnl)})
    IN  sony_collect(image_sets, videos)

sony_list_high_quality(disk, source_media_location, source_media_card) ==
    LET dcim == join(source_media_card, "DCIM")
        clip == join(join(join(source_media_card, "PRIVATE"), "M4ROOT"), "CLIP")
        image_sets == IF dir_exists(disk, dcim)
                      THEN {filter_dir({sony_list_high_quality_image(disk, source_media_location, path) : path \in read_dir_files(disk, imagedir)}) : imagedir \in read_dir_dirs(disk, dcim)}
                      ELSE {}
        videos == filter_existing_dir(disk, clip, {sony_list_high_quality_video(source_media_location, path) : path \in read_dir_files(disk, clip)})
    IN  sony_collect(image_sets, videos)

\* The ItemImage loop of get_related over the paths files, from index i on.
RECURSIVE sony_related_images(_, _, _, _, _)
sony_related_images(disk, source_media_location, files, i, items) ==
    IF i > Len(files) THEN [ok |-> TRUE, items |-> items]
    ELSE LET t == sony_filetype(files[i], source_media_location)
         IN  IF ~t.ok THEN [ok |-> FALSE, items |-> <<>>]
             ELSE LET v == create_simple_file_if_exists(disk, files[i], t.val, None)
                  IN  IF ~v.ok THEN [ok |-> FALSE, items |-> <<>>]
                      ELSE sony_related_images(disk, source_media_location, files, i + 1, items \o v.val)

\* The order in which get_related derives the files of a video.
sony_video_order == <<"Metadata", "Video", "Thumbnail">>

\* The ItemVideo loop of get_related over sony_video_order, from index i on.
RECURSIVE sony_related_videos(_, _, _, _, _, _, _)
sony_related_videos(disk, km, source_media_location, source_media_file, video_id, i, items) ==
    IF i > Len(sony_video_order) THEN [ok |-> TRUE, items |-> items]
    ELSE LET file == create_video_file(source_media_file, video_id, sony_video_order[i])
             t == sony_filetype(file, source_media_location)
         IN  IF ~t.ok THEN [ok |-> FALSE, items |-> <<>>]
             ELSE LET item == create_part_file_that_exists(disk, km, file, t.val, 1, 1, None)
                  IN  IF ~item.ok THEN [ok |-> FALSE, items |-> <<>>]
                      ELSE sony_related_videos(disk, km, source_media_location, source_media_file, video_id, i + 1, items \o item.val)

sony_get_related(disk, km, source_media_location, source_media_file) ==
    LET input_file_types == sony_filetype(source_media_file, source_media_location)
    IN  IF ~input_file_types.ok THEN [ok |-> FALSE, items |-> <<>>]
        ELSE IF input_file_types.val.item_type = "image"
        THEN sony_related_images(disk, source_media_location, <<with_extension(source_media_file, "ARW"), with_extension(source_media_file, "JPG")>>, 1, <<>>)
        ELSE IF input_file_types.val.item_type = "video"
        THEN IF input_file_types.val.file_type \in {"video", "image-preview", "metadata"}
             THEN sony_related_videos(disk, km, source_media_location, source_media_file, get_video_id(source_media_file), 1, <<>>)
             ELSE [ok |-> FALSE, items |-> <<>>]
        ELSE [ok |-> FALSE, items |-> <<>>]

\* ------------------------------------------------------ the Sony machine
\* The card sits in the source media directory /base as /base/card.
SourceMediaDir == <<"base">>

CardDir == <<"base", "card">>

AlbumDir == <<"base", "card", "DCIM", "100MSDCF">>

ClipDir == <<"base", "card", "PRIVATE", "M4ROOT", "CLIP">>

ThmbnlDir == <<"base", "card", "PRIVATE", "M4ROOT", "THMBNL">>

PhotoStems == {<<"D", "SC00", "001">>, <<"D", "SC00", "002">>}

SonyPhotos == {SonyPath(AlbumDir, s, e) : s \in PhotoStems, e \in {"JPG", "ARW"}}

\* A file the camera does not write into an album.
SonyStray == SonyPath(AlbumDir, <<"D", "SC00", "001">>, "TXT")

VideoId == "0001"

SonyVideos == {create_video_file(SonyPath(ClipDir, <<"C", VideoId, "">>, "MP4"), VideoId, t) : t \in VideoFiles}

SonyUniverse == SonyPhotos \cup {SonyStray} \cup SonyVideos \cup {SonyDir(ClipDir), SonyDir(ThmbnlDir)}

\* What a caller may hand over as source_media_location and source_media_card.
SonyLocations == {SourceMediaDir, CardDir, <<>>}

SonyCards == {CardDir, SourceMediaDir}

InitSony ==
    /\ fs \in SUBSET SonyUniverse
    /\ known_missing_files \in SUBSET (SonyVideos \ fs)
    /\ Start

\* SonyInterface::list_thumbnail(source_media_location, source_media_card, _)
SonyListThumbnail(source_media_location, source_media_card) ==
    /\ pc = "idle"
    /\ listed' = sony_list_thumbnail(fs, source_media_location, source_media_card)
    /\ pc' = "done"
    /\ op' = "Sony.list_thumbnail"
    /\ input' = Some([location |-> source_media_location, card |-> source_media_card])
    /\ UNCHANGED <<fs, known_missing_files, classified, visited, ret, parts>>

\* SonyInterface::list_high_quality(source_media_location, source_media_card, _)
SonyListHighQuality(source_media_location, source_media_card) ==
    /\ pc = "idle"
    /\ listed' = sony_list_high_quality(fs, source_media_location, source_media_card)
    /\ pc' = "done"
    /\ op' = "Sony.list_high_quality"
    /\ input' = Some([location |-> source_media_location, card |-> source_media_card])
    /\ UNCHANGED <<fs, known_missing_files, classified, visited, ret, parts>>

\* SonyInterface::get_related(source_media_location, source_media_file, known_missing_files)
SonyGetRelated(source_media_location, source_media_file) ==
    /\ pc = "idle"
    /\ ret' = sony_get_related(fs, known_missing_files, source_media_location, source_media_file)
    /\ pc' = "done"
    /\ op' = "Sony.get_related"
    /\ input' = Some([location |-> source_media_location, file |-> source_media_file])
    /\ UNCHANGED <<fs, known_missing_files, classified, visited, listed, parts>>

NextSony ==
    \/ \E l \in SonyLocations, c \in SonyCards : SonyListThumbnail(l, c)
    \/ \E l \in SonyLocations, c \in SonyCards : SonyListHighQuality(l, c)
    \/ \E l \in SonyLocations, f \in read_dir_files(fs, AlbumDir) \cup read_dir_files(fs, ClipDir) \cup read_dir_files(fs, ThmbnlDir) \cup known_missing_files : SonyGetRelated(l, f)

SpecSony == InitSony /\ [][NextSony]_vars

\* The paths handed to filetype: the shapes of the card, and shapes that differ
\* from them in one directory name or in the extension, under several roots.
SonyRoots == {CardDir, SourceMediaDir, <<"base", "card", "sub">>, <<"other", "card">>}

SonyShapes == {<<<<"DCIM", "100MSDCF">>, "JPG">>, <<<<"DCIM", "100MSDCF">>, "ARW">>, <<<<"DCIM", "100MSDCF">>, "TXT">>, <<<<"DCIM", "100OTHER">>, "JPG">>,
               <<<<"PRIVATE", "M4ROOT", "CLIP">>, "MP4">>, <<<<"PRIVATE", "M4ROOT", "CLIP">>, "XML">>, <<<<"PRIVATE", "M4ROOT", "THMBNL">>, "JPG">>,
               <<<<"PRIVATE", "M4ROOT", "CLIP">>, "JPG">>, <<<<"PRIVATE", "M4ROOT", "SUB">>, "MP4">>, <<<<"OTHER", "M4ROOT", "CLIP">>, "MP4">>}

FiletypeInputs == {SonyPath(r \o sh[1], <<"C", VideoId, "">>, sh[2]) : r \in SonyRoots, sh \in SonyShapes}

FiletypeLocations == SonyLocations \cup {<<"other">>}

InitSonyType ==
    /\ fs = {}
    /\ known_missing_files = {}
    /\ Start

\* filetype(file, source_media_location)
SonyFiletype(file, source_media_location) ==
    /\ pc = "idle"
    /\ classified' = sony_filetype(file, source_media_location)
    /\ pc' = "done"
    /\ op' = "Sony.filetype"
    /\ input' = Some([location |-> source_media_location, file |-> file])
    /\ UNCHANGED <<fs, known_missing_files, visited, ret, listed, parts>>

NextSonyType == \E file \in FiletypeInputs, l \in FiletypeLocations : SonyFiletype(file, l)

SpecSonyType == InitSonyType /\ [][NextSonyType]_vars

\* ------------------------------------------------------ Sony properties
SonyListedPaths == {it.file_path : it \in listed.items}

\* The FileItems a list operation returned for the photo stem s.
StemItems(s) == {it \in listed.items : it.file_path.dir = AlbumDir /\ it.file_path.stem = s}

\* Of every photo stem the list holds the file with the extension preferred
\* when it is on disk and else the file with the extension other; one
\* FileItem per stem that has a file.
PhotoPreference(preferred, other) ==
    \A s \in PhotoStems :
        LET p == SonyPath(AlbumDir, s, preferred)
            o == SonyPath(AlbumDir, s, other)
        IN  /\ p \in fs => (p \in SonyListedPaths /\ o \notin SonyListedPaths)
            /\ (p \notin fs /\ o \in fs) => o \in SonyListedPaths
            /\ Cardinality(StemItems(s)) = IF p \in fs \/ o \in fs THEN 1 ELSE 0

\* The caller hands over the card directory of the modelled disk.
OwnCard == input # None /\ input[1].card = CardDir

Listable(videodir) == OwnCard /\ input[1].location = SourceMediaDir /\ dir_exists(fs, videodir) /\ SonyStray \notin fs

MatchingShapes == {<<<<"DCIM", "100MSDCF">>, "JPG">>, <<<<"DCIM", "100MSDCF">>, "ARW">>, <<<<"PRIVATE", "M4ROOT", "CLIP">>, "MP4">>,
                   <<<<"PRIVATE", "M4ROOT", "CLIP">>, "XML">>, <<<<"PRIVATE", "M4ROOT", "THMBNL">>, "JPG">>}

ShapeOf(file) == {sh \in MatchingShapes : file.ext = sh[2] /\ Len(file.dir) >= Len(sh[1]) /\ SubSeq(file.dir, Len(file.dir) - Len(sh[1]) + 1, Len(file.dir)) = sh[1]}

\* The directory that directly contains the DCIM or PRIVATE of file.
ContainingDir(file) == LET sh == CHOOSE x \in ShapeOf(file) : TRUE IN SubSeq(file.dir, 1, Len(file.dir) - Len(sh[1]))

Classified == Done("Sony.filetype") /\ ShapeOf(input[1].file) # {}

\* C16 as stated: the Sony filetype of a path of a matching shape succeeds
\* exactly when the directory that directly contains DCIM or PRIVATE is the
\* directory supplied by the caller.
C16_AnchoredAtSupplied == Classified => (classified.ok <=> ContainingDir(input[1].file) = input[1].location)

\* C16 amended: the Sony filetype of a path of a matching shape succeeds
\* exactly when the parent of the directory that directly contains DCIM or
\* PRIVATE (the card directory) is the supplied source media directory.
C16_AnchoredAtParentOfCard == Classified => (classified.ok <=> parent(ContainingDir(input[1].file)) = Some(input[1].location))

C16_Witness == Classified /\ classified.ok /\ ContainingDir(input[1].file) = CardDir /\ input[1].location = SourceMediaDir /\ input[1].file.dir[Len(input[1].file.dir)] = "THMBNL"

\* The three files of the video with the id of file
Siblings(file) == {SonyPath(ClipDir, <<"C", file.stem[2], "">>, "MP4"), SonyPath(ClipDir, <<"C", file.stem[2], "M01">>, "XML"), SonyPath(ThmbnlDir, <<"C", file.stem[2], "T01">>, "JPG")}

\* get_related was called on a file of the video family of the card.
SonyVideoInput == Done("Sony.get_related") /\ input[1].file \in SonyVideos /\ input[1].location = SourceMediaDir

\* C17: Sony get_related on a video-family file returns one FileItem with
\* part_count 1 and part_num 1 for each of C{id}.MP4, C{id}M01.XML and
\* C{id}T01.JPG that is on disk, leaves out those that are absent and
\* known-missing, and fails with no items when one is absent and not
\* known-missing.
C17_VideoSiblings ==
    SonyVideoInput =>
        LET sib == Siblings(input[1].file)
        IN  IF \A f \in sib : f \in fs \/ f \in known_missing_files
            THEN /\ ret.ok
                 /\ {ret.items[k].file_path : k \in 1..Len(ret.items)} = sib \cap fs
                 /\ Len(ret.items) = Cardinality(sib \cap fs)
                 /\ \A k \in 1..Len(ret.items) : ret.items[k].part_count = Some(1) /\ ret.items[k].part_num = Some(1)
            ELSE ~ret.ok /\ ret.items = <<>>

C17_Witness ==
    /\ SonyVideoInput
    /\ known_missing_files = {SonyPath(ClipDir, <<"C", VideoId, "M01">>, "XML")}
    /\ input[1].file = SonyPath(ThmbnlDir, <<"C", VideoId, "T01">>, "JPG")
    /\ ret.ok
    /\ Len(ret.items) = 2

\* ------------------------------------------------- gnss_tracker_generic.rs
FILE_TYPES == JsonFileInfoTypes("gnss-track", "gnss-track")

\* The simple record of a track file, as the closure builds it.
gnss_simple_file(path) ==
    LET r == create_simple_file(path, FILE_TYPES, None)
    IN  IF r.ok THEN Ok(Some(r.val)) ELSE Err

\* gnss_list_thumbnail_visit whose txt arm looks for the gpx sibling alone.
gnss_list_thumbnail_visit_txt_after_gpx(disk, path) ==
    LET ext == to_lowercase(get_extension_str(path))
    IN  CASE ext = "gpx" -> gnss_simple_file(path)
          [] ext = "kml" -> IF ~exists(disk, with_extension(path, "gpx")) THEN gnss_simple_file(path) ELSE Ok(None)
          [] ext = "txt" -> IF ~exists(disk, with_extension(path, "gpx")) THEN gnss_simple_file(path) ELSE Ok(None)
          [] OTHER -> Err

\* The closure GNSSTrackerGeneric::list_thumbnail hands to filter_dir.
gnss_list_thumbnail_visit(disk, path) ==
    LET ext == to_lowercase(get_extension_str(path))
    IN  CASE ext = "gpx" -> gnss_simple_file(path)
          [] ext = "kml" -> IF ~exists(disk, with_extension(path, "gpx")) THEN gnss_simple_file(path) ELSE Ok(None)
          [] ext = "txt" -> IF ~exists(disk, with_extension(path, "gpx")) /\ ~exists(disk, with_extension(path, "kml")) THEN gnss_simple_file(path) ELSE Ok(None)
          [] OTHER -> Err

gnss_list_thumbnail(disk) == filter_dir({gnss_list_thumbnail_visit(disk, path) : path \in disk})

gnss_list_high_quality(disk) == gnss_list_thumbnail(disk)

\* gnss_extensions with kml ahead of gpx.
gnss_extensions_kml_first == <<"kml", "gpx", "txt">>

\* for extension in ["gpx", "kml", "txt"]
gnss_extensions == <<"gpx", "kml", "txt">>

\* The loop of get_related over gnss_extensions, from index i on; an error of
\* create_simple_file_if_exists is passed over like an absent file.
RECURSIVE gnss_related_loop(_, _, _, _)
gnss_related_loop(disk, source_media_file, i, items) ==
    IF i > Len(gnss_extensions) THEN items
    ELSE LET r == create_simple_file_if_exists(disk, with_extension(source_media_file, gnss_extensions[i]), FILE_TYPES, None)
         IN  IF r.ok /\ r.val # None THEN gnss_related_loop(disk, source_media_file, i + 1, Append(items, r.val[1]))
             ELSE gnss_related_loop(disk, source_media_file, i + 1, items)

gnss_get_related(disk, source_media_file) == [ok |-> TRUE, items |-> gnss_related_loop(disk, source_media_file, 1, <<>>)]

\* The directories of the tracker: two stems under the three track extensions,
\* two of them also in upper case, and under an extension it does not know.
GnssStems == {"a", "b"}

GnssExts == {"gpx", "kml", "txt", "GPX", "KML", "doc"}

GnssUniverse == {File(s, e) : s \in GnssStems, e \in GnssExts}

InitGnss ==
    /\ fs \in SubsetsUpTo(GnssUniverse, MaxFiles)
    /\ known_missing_files \in SubsetsUpTo(GnssUniverse \ fs, MaxMissing)
    /\ Start

\* GNSSTrackerGeneric::list_thumbnail(_, source_media_card, _)
GnssListThumbnail ==
    /\ pc = "idle"
    /\ listed' = gnss_list_thumbnail(fs)
    /\ pc' = "done"
    /\ op' = "GNSS.list_thumbnail"
    /\ UNCHANGED <<fs, known_missing_files, classified, visited, input, ret, parts>>

\* GNSSTrackerGeneric::list_high_quality(_, source_media_card, _)
GnssListHighQuality ==
    /\ pc = "idle"
    /\ listed' = gnss_list_high_quality(fs)
    /\ pc' = "done"
    /\ op' = "GNSS.list_high_quality"
    /\ UNCHANGED <<fs, known_missing_files, classified, visited, input, ret, parts>>

\* GNSSTrackerGeneric::get_related(_, source_media_file, _)
GnssGetRelated(source_media_file) ==
    /\ pc = "idle"
    /\ ret' = gnss_get_related(fs, source_media_file)
    /\ pc' = "done"
    /\ op' = "GNSS.get_related"
    /\ input' = Some(source_media_file)
    /\ UNCHANGED <<fs, known_missing_files, classified, visited, listed, parts>>

NextGnss ==
    \/ GnssListThumbnail
    \/ GnssListHighQuality
    \/ \E source_media_file \in GnssUniverse : GnssGetRelated(source_media_file)

SpecGnss == InitGnss /\ [][NextGnss]_vars

\* ------------------------------------------------------ GNSS properties
GnssListed == Done("GNSS.list_thumbnail") \/ Done("GNSS.list_high_quality")

\* C18: in a successful GNSS list call every gpx file is emitted, a kml file
\* exactly when the gpx of its stem is not on disk, and a txt file exactly
\* when neither the gpx nor the kml of its stem is on disk.
C18_TrackPreference ==
    (GnssListed /\ listed.ok) =>
        \A f \in fs :
            /\ f.ext = "gpx" => f \in ListedPaths
            /\ f.ext = "kml" => (f \in ListedPaths <=> File(f.stem, "gpx") \notin fs)
            /\ f.ext = "txt" => (f \in ListedPaths <=> (File(f.stem, "gpx") \notin fs /\ File(f.stem, "kml") \notin fs))

C18_Witness ==
    /\ Done("GNSS.list_thumbnail")
    /\ fs = {File("a", "kml"), File("a", "txt"), File("b", "gpx")}
    /\ listed.ok
    /\ ListedPaths = {File("a", "kml"), File("b", "gpx")}

\* The gpx, kml and txt of the stem of file that are on disk, in that order.
OnDisk(f) == f \in fs

ExistingTracks(file) == SelectSeq(<<File(file.stem, "gpx"), File(file.stem, "kml"), File(file.stem, "txt")>>, OnDisk)

\* C19: GNSS get_related never fails; whatever the known-missing list, it
\* returns the gpx, kml and txt files of the stem of its input that are on
\* disk, in that order, and the empty list when none is.
C19_ExistingTracksInOrder ==
    Done("GNSS.get_related") =>
        /\ ret.ok
        /\ [k \in 1..Len(ret.items) |-> ret.items[k].file_path] = ExistingTracks(input[1])

C19_Witness ==
    /\ Done("GNSS.get_related")
    /\ fs = {File("a", "txt"), File("a", "gpx"), File("b", "kml")}
    /\ known_missing_files = {File("a", "kml")}
    /\ input = Some(File("a", "kml"))
    /\ Len(ret.items) = 2
    /\ ret.items[1].file_path = File("a", "gpx")

\* ------------------------------------------- helpers.rs, the directory walk
\* for_each_file_type that goes on to the next entry after a failing visitor.
RECURSIVE for_each_file_type_goes_on(_, _, _)
for_each_file_type_goes_on(visits, i, acc) ==
    IF i > Len(visits) THEN acc
    ELSE IF ~visits[i].ok THEN for_each_file_type_goes_on(visits, i + 1, [acc EXCEPT !.ok = FALSE, !.visited = i])
    ELSE for_each_file_type_goes_on(visits, i + 1, [acc EXCEPT !.items = @ \o visits[i].val, !.visited = i])

\* for_each_file_type with the closure of filter_dir as f, from entry i on:
\* visits[i] is the outcome of the filter on the i-th entry that read_dir
\* yields, acc.items the Vec the closure has pushed to, and acc.visited the
\* number of entries handed to the closure.
RECURSIVE for_each_file_type(_, _, _)
for_each_file_type(visits, i, acc) ==
    IF i > Len(visits) THEN acc
    ELSE IF ~visits[i].ok THEN [acc EXCEPT !.ok = FALSE, !.visited = i]
    ELSE for_each_file_type(visits, i + 1, [acc EXCEPT !.items = @ \o visits[i].val, !.visited = i])

\* filter_dir on the entries in read order: the items are returned when
\* for_each_file_type succeeded, the error alone when it failed.
filter_dir_in_order(visits) ==
    LET r == for_each_file_type(visits, 1, [ok |-> TRUE, items |-> <<>>, visited |-> 0])
    IN  IF r.ok THEN r ELSE [r EXCEPT !.items = <<>>]

\* Every order in which read_dir can yield the entries S.
RECURSIVE Orders(_)
Orders(S) == IF S = {} THEN {<<>>} ELSE UNION {{<<x>> \o o : o \in Orders(S \ {x})} : x \in S}

\* The list operations that hand a closure to filter_dir, and the directories
\* each is run on (for Sony the album directory of the card).
WalkHandlers == {"GoPro.list_thumbnail", "GoPro.list_high_quality", "Generic.list_thumbnail", "GNSS.list_thumbnail", "Sony.list_thumbnail", "Sony.list_high_quality"}

WalkUniverse(handler) ==
    CASE handler \in {"GoPro.list_thumbnail", "GoPro.list_high_quality"} -> Universe
      [] handler = "Generic.list_thumbnail" -> GenericUniverse
      [] handler = "GNSS.list_thumbnail" -> GnssUniverse
      [] handler \in {"Sony.list_thumbnail", "Sony.list_high_quality"} -> SonyPhotos \cup {SonyStray}

\* The closure of the list operation handler on the entry path.
WalkVisit(handler, disk, km, path) ==
    CASE handler = "GoPro.list_thumbnail" -> list_thumbnail_visit(disk, km, path)
      [] handler = "GoPro.list_high_quality" -> list_high_quality_visit(disk, km, path)
      [] handler = "Generic.list_thumbnail" -> generic_list_thumbnail_visit(path)
      [] handler = "GNSS.list_thumbnail" -> gnss_list_thumbnail_visit(disk, path)
      [] handler = "Sony.list_thumbnail" -> sony_list_thumbnail_image(disk, SourceMediaDir, path)
      [] handler = "Sony.list_high_quality" -> sony_list_high_quality_image(disk, SourceMediaDir, path)

\* A directory of one device, read in one of the orders read_dir may choose.
InitWalk ==
    /\ \E handler \in WalkHandlers :
          /\ fs \in SubsetsUpTo(WalkUniverse(handler), MaxFiles)
          /\ \E order \in Orders(fs) : input = Some([handler |-> handler, order |-> order])
    /\ known_missing_files = {}
    /\ pc = "idle"
    /\ op = "none"
    /\ ret = NoRet
    /\ listed = NoList
    /\ parts = NoParts
    /\ classified = NoTypes
    /\ visited = 0

\* filter_dir(source_dir, filter) of the list operation input[1].handler
FilterDir ==
    /\ pc = "idle"
    /\ LET order == input[1].order
           r == filter_dir_in_order([k \in 1..Len(order) |-> WalkVisit(input[1].handler, fs, known_missing_files, order[k])])
       IN  /\ ret' = [ok |-> r.ok, items |-> r.items]
           /\ visited' = r.visited
    /\ listed' = filter_dir({WalkVisit(input[1].handler, fs, known_missing_files, path) : path \in fs})
    /\ pc' = "done"
    /\ op' = "filter_dir"
    /\ UNCHANGED <<fs, known_missing_files, classified, input, parts>>

NextWalk == FilterDir

SpecWalk == InitWalk /\ [][NextWalk]_vars

\* The positions in the read order at which the closure fails.
Failing == {k \in 1..Len(input[1].order) : ~WalkVisit(input[1].handler, fs, known_missing_files, input[1].order[k]).ok}

\* C20: a list call whose closure fails on some entry returns the error and
\* none of the FileItems collected before, and hands no entry after the first
\* failing one to the closure; a call whose closure fails on no entry visits
\* every entry and succeeds.  The result does not depend on the read order.
C20_AllOrNothing ==
    Done("filter_dir") =>
        /\ ret.ok = listed.ok
        /\ {ret.items[k] : k \in 1..Len(ret.items)} = listed.items
        /\ IF Failing = {}
           THEN ret.ok /\ visited = Len(input[1].order)
           ELSE ~ret.ok /\ ret.items = <<>> /\ visited \in Failing /\ \A k \in Failing : visited <= k

C20_Witness ==
    /\ Done("filter_dir")
    /\ input[1].handler = "GNSS.list_thumbnail"
    /\ input[1].order = <<File("a", "gpx"), File("a", "doc"), File("b", "gpx")>>
    /\ ~ret.ok
    /\ ret.items = <<>>
    /\ visited = 2

\* ------------------------------------------------ GoPro photos and videos
\* A photo is named GOPR{id}.JPG or GOPR{id}.GPR: the bytes 2..4 of the name
\* are no number, which the part -1 stands for.
NO_PART == 0 - 1

PhotoIds == {"0001", "0002"}

Photo(id, ext) == Path("GO", NO_PART, id, ext)

GoProPhotos == {Photo(i, e) : i \in PhotoIds, e \in {"JPG", "GPR"}}

\* The files of the first part of one H.264 video.
FirstPartVideos == {H264(1, "A"), LRV(1, "A"), THM264(1, "A"), WAV(1, "A")}

PhotoUniverse == GoProPhotos \cup FirstPartVideos

\* A card directory of photos and of the files of a one-part video.
InitPhoto ==
    /\ fs \in SubsetsUpTo(PhotoUniverse, MaxFiles)
    /\ known_missing_files \in SubsetsUpTo(FirstPartVideos \ fs, MaxMissing)
    /\ Start

SpecPhoto == InitPhoto /\ [][Next]_vars

\* The FileItems a list operation returned for the photo with the id i.
PhotoItems(i) == {it \in listed.items : it.file_path = Photo(i, "JPG") \/ it.file_path = Photo(i, "GPR")}

\* C22: GoPro list_high_quality succeeds on a directory of photos and video
\* files and emits every GPR, a JPG exactly when the GPR of its stem is not on
\* disk, and no THM, LRV or WAV; every photo stem on disk yields exactly one
\* FileItem.
C22_RawBeforeJpeg ==
    Done("list_high_quality") =>
        /\ listed.ok
        /\ \A f \in fs :
              /\ f.ext = "GPR" => f \in ListedPaths
              /\ f.ext = "JPG" => (f \in ListedPaths <=> Photo(f.id, "GPR") \notin fs)
              /\ f.ext \in {"THM", "LRV", "WAV"} => f \notin ListedPaths
        /\ \A i \in PhotoIds : (Photo(i, "JPG") \in fs \/ Photo(i, "GPR") \in fs) => Cardinality(PhotoItems(i)) = 1

C22_Witness ==
    /\ Done("list_high_quality")
    /\ fs = {Photo("0001", "JPG"), Photo("0001", "GPR"), Photo("0002", "JPG")}
    /\ ListedPaths = {Photo("0001", "GPR"), Photo("0002", "JPG")}

\* --------------------------------------------------------- every handler
\* The handler that governs a directory is the one of the device that wrote
\* it: the directory and the known-missing list hold names of that device.
GoProCard == \A f \in fs \cup known_missing_files : "prefix" \in DOMAIN f

SonyCard == \A f \in fs \cup known_missing_files : "dir" \in DOMAIN f

SingleFileCard == \A f \in fs \cup known_missing_files : DOMAIN f = {"stem", "ext"}

InitAll == InitPhoto \/ InitGeneric \/ InitGnss \/ InitSony

NextAll ==
    \/ GoProCard /\ Next
    \/ SingleFileCard /\ NextGeneric
    \/ SingleFileCard /\ NextGnss
    \/ SonyCard /\ NextSony

SpecAll == InitAll /\ [][NextAll]_vars

\* Every FileItem the operation that ran has returned.
Returned == listed.items \cup {ret.items[k] : k \in 1..Len(ret.items)}

\* C21: in every FileItem returned by an operation of a handler part_count
\* and part_num are both present or both absent, and a FileItem without them
\* does not have the item type video.
C21_PartFieldsPaired ==
    \A it \in Returned :
        /\ it.part_count = None <=> it.part_num = None
        /\ it.part_count = None => it.item_type # "video"

C21_Witness ==
    /\ Done("Sony.list_thumbnail")
    /\ listed.ok
    /\ \E it \in listed.items : it.part_count = None /\ it.item_type = "image"
    /\ \E it \in listed.items : it.part_count = Some(1) /\ it.part_num = Some(1) /\ it.item_type = "video"

\* C23: every FileItem of a successful GoPro get_related on a video file
\* carries a part_num between 1 and its part_count.
C23_PartNumWithinCount ==
    (Done("get_related") /\ VideoInput /\ ret.ok) =>
        \A k \in 1..Len(ret.items) : 1 <= ret.items[k].part_num[1] /\ ret.items[k].part_num[1] <= ret.items[k].part_count[1]

\* The video-family names of the media id i, on disk or not.
VideoFamily(i) == {g \in Universe : g.id = i}

\* A card directory of video files whose known-missing list names files of
\* the first part; get_related is called on a file on disk or known-missing.
InitItem ==
    /\ fs \in SubsetsUpTo(Universe, MaxFiles)
    /\ known_missing_files \in SubsetsUpTo({f \in Universe \ fs : f.part = 1}, MaxMissing)
    /\ Start

NextItem == \E source_media_file \in fs \cup known_missing_files : GetRelated(source_media_file)

SpecItem == InitItem /\ [][NextItem]_vars

\* C24: for one directory and one known-missing list, GoPro get_related gives
\* the same outcome (the same error, or the same list of FileItems in the
\* same order) for every video-family file of the media id of its input,
\* whatever its kind, prefix and part number.
C24_SameForEveryFileOfTheItem ==
    (Done("get_related") /\ VideoInput) =>
        \A g \in VideoFamily(InputId) : get_related(fs, known_missing_files, g) = ret

C24_Witness ==
    /\ Done("get_related")
    /\ input = Some(THM264(2, "A"))
    /\ ret.ok
    /\ Len(ret.items) = 2
    /\ get_related(fs, known_missing_files, H265(1, "A")) = ret

\* The track files of the stem s on disk, in any letter case.
Tracks(s) == {f \in fs : f.stem = s /\ to_lowercase(f.ext) \in {"gpx", "kml", "txt"}}

\* gpx before kml before txt
Preference(f) == CASE to_lowercase(f.ext) = "gpx" -> 1 [] to_lowercase(f.ext) = "kml" -> 2 [] OTHER -> 3

\* The stem s has at most one file of each kind.
OneOfEachKind(s) == \A f, g \in Tracks(s) : Preference(f) = Preference(g) => f = g

\* C25: a successful GNSS list call returns for every stem that has track
\* files, one of each kind at most and in any letter case, exactly one
\* FileItem: the file of the highest preference.
C25_OnePerStemAnyCase ==
    (GnssListed /\ listed.ok) =>
        \A s \in GnssStems : (Tracks(s) # {} /\ OneOfEachKind(s)) =>
            {f \in ListedPaths : f.stem = s} = {f \in Tracks(s) : \A g \in Tracks(s) : Preference(f) <= Preference(g)}

\* ------------------------------------------------ the longest part sequences
\* How the parts of a run are accounted for: all on disk, all known-missing,
\* alternately, or the first half on disk and the rest known-missing.
Layouts == {"disk", "missing", "alternate", "halves"}

OnDiskIn(layout, p, n) ==
    CASE layout = "disk" -> TRUE
      [] layout = "missing" -> FALSE
      [] layout = "alternate" -> p % 2 = 1
      [] layout = "halves" -> 2 * p <= n

\* The MP4 of part p: H.264 for the first parts of three, H.265 for the others.
PartFile(p) == IF p % 3 = 1 THEN H264(p, "A") ELSE H265(p, "A")

\* Parts 1..n of the video accounted for as the layout says, up to every part
\* number the loop of count_gopro_parts can reach; with a stray part behind
\* the gap or without.
InitLong ==
    /\ \E n \in 0..LAST_PART, layout \in Layouts, stray \in BOOLEAN :
          /\ fs = {PartFile(p) : p \in {q \in 1..n : OnDiskIn(layout, q, n)}} \cup (IF stray /\ n + 2 <= LAST_PART THEN {PartFile(n + 2)} ELSE {})
          /\ known_missing_files = {PartFile(p) : p \in {q \in 1..n : ~OnDiskIn(layout, q, n)}}
    /\ Start

\* count_gopro_parts, entered: both counters at 0, no part examined yet.
CountBegin(base_file) ==
    /\ pc = "idle"
    /\ pc' = "counting"
    /\ op' = "count_gopro_parts"
    /\ input' = Some(base_file)
    /\ parts' = [ok |-> FALSE, existing_parts_count |-> 0, all_parts_count |-> 0]
    /\ visited' = 0
    /\ UNCHANGED <<fs, known_missing_files, classified, ret, listed>>

\* One iteration of for part in 1..=99, or the return behind the loop;
\* visited is the number of part numbers examined so far.
CountPart ==
    /\ pc = "counting"
    /\ LET part == visited + 1
           c == IF part > LAST_PART THEN "break" ELSE count_part(fs, known_missing_files, input[1], part)
           acc == CASE c = "existing" -> PartCount((parts.existing_parts_count + 1) % U8_MODULUS, (parts.all_parts_count + 1) % U8_MODULUS)
                    [] c = "missing" -> PartCount(parts.existing_parts_count, (parts.all_parts_count + 1) % U8_MODULUS)
                    [] OTHER -> PartCount(parts.existing_parts_count, parts.all_parts_count)
       IN  /\ visited' = IF part > LAST_PART THEN visited ELSE part
           /\ pc' = IF c \in {"existing", "missing"} THEN "counting" ELSE "done"
           /\ parts' = [ok |-> c = "break", existing_parts_count |-> acc.existing_parts_count, all_parts_count |-> acc.all_parts_count]
    /\ UNCHANGED <<fs, known_missing_files, classified, ret, listed, op, input>>

NextLong ==
    \/ \E base_file \in BaseFiles : CountBegin(base_file)
    \/ CountPart

SpecLong == InitLong /\ [][NextLong]_vars

\* The parts of the leading run that are accounted for, counted without a width.
LeadingRun(i) == {p \in 1..LAST_PART : \A q \in 1..p : PartAccounted(q, i)}

\* C26: count_gopro_parts examines at most 99 part numbers, and on a
\* successful return 0 <= existing_parts_count <= all_parts_count <= 99, both
\* counters holding the true counts, none wrapped at the width of u8, also
\* when every part 1..99 is on disk or known-missing.
C26_CountersNeverOverflow ==
    (op = "count_gopro_parts") =>
        /\ visited <= LAST_PART
        /\ (pc = "done" /\ parts.ok) =>
              /\ 0 <= parts.existing_parts_count
              /\ parts.existing_parts_count <= parts.all_parts_count
              /\ parts.all_parts_count <= LAST_PART
              /\ parts.all_parts_count = Cardinality(LeadingRun(InputId))
              /\ parts.existing_parts_count = Cardinality({p \in LeadingRun(InputId) : PartOnDisk(p, InputId)})
              /\ count_gopro_parts(fs, known_missing_files, input[1]) = Ok(PartCount(parts.existing_parts_count, parts.all_parts_count))

C26_Witness ==
    /\ Done("count_gopro_parts")
    /\ parts.ok
    /\ \A p \in 1..LAST_PART : PartAccounted(p, InputId)
    /\ \E p \in 1..LAST_PART : ~PartOnDisk(p, InputId)
    /\ \E p \in 1..LAST_PART : PartOnDisk(p, InputId)
    /\ parts.all_parts_count = LAST_PART
    /\ visited = LAST_PART

====
